---------------------------- MODULE Spec2Model ----------------------------
(***************************************************************************)
(* Polling metric sources of library/sensors: one sensor instance with its *)
(* TTL cache (_cache, _last), its history buffer (_hist) and the three     *)
(* read views as_numeric, as_string and last_values.                       *)
(*                                                                         *)
(* Three source files define the sensor classes:                           *)
(*   "custom"  : sensors_custom.py         (Plex and Proxmox, with _hist)  *)
(*   "plex"    : sensors_custom_plex.py    (Plex, no _hist)                *)
(*   "proxmox" : sensors_custom_proxmox.py (Proxmox, no _hist, _cached     *)
(*               keeps the entry when the compute function returns None)   *)
(*                                                                         *)
(* Python floats are modelled as exact rationals <<n, d>> in lowest terms. *)
(***************************************************************************)
EXTENDS Integers, Sequences, FiniteSets, TLC

----------------------------------------------------------------------------
(* Bounds of the model *)

\* the clock runs over 0..MaxTime
MaxTime == 2
\* cache_ttl is 0 (nothing is ever fresh) or MaxTTL
MaxTTL == 2
\* numbers found in response bodies are drawn from 0..MaxVal
MaxVal == 1
\* a sensor with a history takes at most MaxSamples samples
MaxSamples == 2
\* a sections listing holds at most MaxDirs directories, a netstat listing at
\* most MaxDirs interfaces
MaxDirs == 2
\* at most MaxPushes samples are pushed in the history specification
MaxPushes == 250
\* at most MaxReads polls are made against the scripted backend
MaxReads == 4
\* the instance overrides given to __init__ hold at most MaxKeys keys
MaxKeys == 2
\* as_numeric calls the host makes in one burst, between which no time passes
Burst == 100

(* Program constants *)

\* len(self._hist) > 200
HistCap == 200
\* self._hist[-40:]
ViewLen == 40
\* int(cfg.get("cache_ttl", 30))
DefaultTTL == 30

----------------------------------------------------------------------------
(* Python values *)

RECURSIVE GCD(_, _)
GCD(a, b) == IF b = 0 THEN a ELSE GCD(b, a % b)

Abs(x) == IF x < 0 THEN -x ELSE x

\* the float n/d, d # 0, in lowest terms with a positive denominator
Rat(n, d) ==
    LET g == GCD(Abs(n), Abs(d))
        s == IF d < 0 THEN -1 ELSE 1
    IN  <<(s * n) \div g, (s * d) \div g>>

RMul(x, y) == Rat(x[1] * y[1], x[2] * y[2])
RAdd(x, y) == Rat(x[1] * y[2] + y[1] * x[2], x[2] * y[2])
\* x / y for y # 0
RDiv(x, y) == Rat(x[1] * y[2], x[2] * y[1])
\* floor(x)
RFloor(x) == x[1] \div x[2]
\* int(x): truncation towards zero
RInt(x) == IF x[1] >= 0 THEN x[1] \div x[2] ELSE -((-x[1]) \div x[2])

\* the float 0.0, the value every transform falls back to
Zero == Rat(0, 1)

\* results of a compute function, and of the public operations
Val(x)  == [t |-> "float", v |-> x]
None    == [t |-> "None"]
Raised  == [t |-> "raise"]
Str(s)  == [t |-> "str", s |-> s]
List(l) == [t |-> "list", l |-> l]

----------------------------------------------------------------------------
(* JSON values, as r.json() yields them; Python's None is JNull *)

JNull      == [t |-> "null"]
JNum(x)    == [t |-> "num", v |-> x]
JStr(s)    == [t |-> "str", s |-> s]
JList(l)   == [t |-> "list", l |-> l]
JDict(m)   == [t |-> "dict", m |-> m]
EmptyDict  == JDict(<<>>)
EmptyList  == JList(<<>>)
JInt(n)    == JNum(Rat(n, 1))

\* bool(j)
Truthy(j) ==
    CASE j.t = "null" -> FALSE
      [] j.t = "num"  -> j.v[1] # 0
      [] j.t = "str"  -> j.s # ""
      [] j.t = "list" -> Len(j.l) > 0
      [] j.t = "dict" -> DOMAIN j.m # {}

\* j or dflt
Or(j, dflt) == IF Truthy(j) THEN j ELSE dflt

\* d.get(k, dflt) of a dict d
Get(d, k, dflt) == IF k \in DOMAIN d.m THEN d.m[k] ELSE dflt

\* float(j) and int(j) succeed on numbers only: None, lists and dicts give a
\* TypeError, the non-numeric strings of this model a ValueError
CanFloat(j) == j.t = "num"

----------------------------------------------------------------------------
(* One HTTP exchange: what requests.get does for one request *)

\* the request raised (connection refused, timeout, invalid URL)
NetErr       == [t |-> "neterr"]
\* a response with a status code other than 200
Status(code) == [t |-> "status", code |-> code]
\* a 200 response whose body is no JSON: r.json() raises
BadJson      == [t |-> "badjson"]
\* a 200 response with the JSON body j
Ok(j)        == [t |-> "ok", json |-> j]

\* the three ways a backend is Unavailable
Unavailable == {NetErr, Status(500), BadJson}

IsUnavailable(http) == http.t # "ok"

\* _plex_get asking once more when the first request fails (the second gets
\* the same answer)
plex_get_Retries(url, http) ==
    IF url = ""
    THEN [v |-> JNull, n |-> 0]
    ELSE IF http.t = "ok" THEN [v |-> http.json, n |-> 1]
         ELSE [v |-> JNull, n |-> 2]

\* PlexBaseSensor._plex_get: [v |-> the value returned, n |-> requests issued]
plex_get(url, http) ==
    IF url = ""
    THEN [v |-> JNull, n |-> 0]
    ELSE IF http.t = "ok" THEN [v |-> http.json, n |-> 1]
         ELSE [v |-> JNull, n |-> 1]

\* ProxmoxBaseSensor._pmx_get: r.json().get("data"), and None on any exception
\* (an empty api_base makes requests.get raise on the URL without a scheme)
pmx_get(url, http) ==
    IF url = ""
    THEN [v |-> JNull, n |-> 1]
    ELSE IF http.t = "ok" /\ http.json.t = "dict"
         THEN [v |-> Get(http.json, "data", JNull), n |-> 1]
         ELSE [v |-> JNull, n |-> 1]

----------------------------------------------------------------------------
(* The compute functions: fn of the Plex sensors, _calc of the Proxmox      *)
(* sensors. Each yields [out |-> Val(x) or Raised, n |-> requests issued].  *)
(* Both source files of a backend define the same compute functions.        *)

Hundred == Rat(100, 1)

Fn(out, n) == [out |-> out, n |-> n]

\* PlexStreamsSensor.as_numeric.fn
plex_streams_fn(url, http) ==
    LET g  == plex_get(url, http)
        j  == Or(g.v, EmptyDict)
        mc == Get(j, "MediaContainer", EmptyDict)
        sz == Get(mc, "size", JInt(0))
    IN  IF j.t # "dict" THEN Fn(Raised, g.n)
        ELSE IF mc.t # "dict" THEN Fn(Raised, g.n)
        ELSE IF ~CanFloat(sz) THEN Fn(Raised, g.n)
        ELSE Fn(Val(sz.v), g.n)

\* the endpoint key of a section: f"/library/sections/{key}/all"
SectionKey(key) == IF key.t = "str" THEN key.s ELSE "None"

\* one turn of "for d in dirs": acc is [out |-> Val(total) or Raised, n |-> requests]
\* kind.type is the directory type counted, kind.needkey the "if key:" test
\* that only PlexMovieCountSensor makes
RECURSIVE plex_count_loop(_, _, _, _, _, _)
plex_count_loop(kind, url, items, dirs, i, acc) ==
    IF i > Len(dirs) \/ acc.out = Raised THEN acc
    ELSE LET d == dirs[i] IN
      IF d.t # "dict" THEN Fn(Raised, acc.n)
      ELSE LET ty  == Get(d, "type", JNull)
               key == Get(d, "key", JNull)
           IN IF ~(ty.t = "str" /\ ty.s = kind.type)
              THEN plex_count_loop(kind, url, items, dirs, i + 1, acc)
              ELSE IF kind.needkey /\ ~Truthy(key)
              THEN plex_count_loop(kind, url, items, dirs, i + 1, acc)
              ELSE LET g  == plex_get(url, items[SectionKey(key)])
                       j  == Or(g.v, EmptyDict)
                       mc == Get(j, "MediaContainer", EmptyDict)
                       sz == Get(mc, "size", JInt(0))
                   IN IF j.t # "dict" THEN Fn(Raised, acc.n + g.n)
                      ELSE IF mc.t # "dict" THEN Fn(Raised, acc.n + g.n)
                      ELSE IF ~CanFloat(sz) THEN Fn(Raised, acc.n + g.n)
                      ELSE plex_count_loop(kind, url, items, dirs, i + 1,
                             Fn(Val(RAdd(acc.out.v, Rat(RInt(sz.v), 1))), acc.n + g.n))

\* fn of PlexMovieCountSensor, PlexTVShowCountSensor, PlexEpisodesCountSensor,
\* PlexAlbumCountSensor and PlexSongsCountSensor; net.sections answers
\* /library/sections and net.items[k] answers /library/sections/{k}/all...
plex_count_fn(kind, url, net) ==
    LET g    == plex_get(url, net.sections)
        sec  == Or(g.v, EmptyDict)
        mc   == Get(sec, "MediaContainer", EmptyDict)
        dirs == Get(mc, "Directory", EmptyList)
    IN  IF sec.t # "dict" THEN Fn(Raised, g.n)
        ELSE IF mc.t # "dict" THEN Fn(Raised, g.n)
        ELSE IF dirs.t = "list"
             THEN plex_count_loop(kind, url, net.items, dirs.l, 1, Fn(Val(Zero), g.n))
        \* iterating an empty dict or string counts nothing; None, numbers and
        \* the keys of a non-empty dict raise
        ELSE IF dirs.t \in {"dict", "str"} /\ ~Truthy(dirs) THEN Fn(Val(Zero), g.n)
        ELSE Fn(Raised, g.n)

\* ProxmoxNodeCPUUsageSensor._calc and ProxmoxVMCPUUsageSensor._calc
pmx_cpu_calc(url, http) ==
    LET g   == pmx_get(url, http)
        d   == Or(g.v, EmptyDict)
        cpu == Get(d, "cpu", JNull)
    IN  IF d.t # "dict" THEN Fn(Raised, g.n)
        ELSE IF CanFloat(cpu) THEN Fn(Val(RMul(cpu.v, Hundred)), g.n)
        ELSE Fn(Val(Zero), g.n)

\* ProxmoxNodeMemoryUsageSensor._calc
pmx_nodemem_calc(url, http) ==
    LET g     == pmx_get(url, http)
        d     == Or(g.v, EmptyDict)
        mem   == Or(Get(d, "memory", JNull), EmptyDict)
        used  == Get(mem, "used", JInt(0))
        total == Get(mem, "total", JInt(1))
    IN  IF d.t # "dict" THEN Fn(Raised, g.n)
        ELSE IF mem.t # "dict" THEN Fn(Val(Zero), g.n)
        ELSE IF ~CanFloat(used) \/ ~CanFloat(total) THEN Fn(Val(Zero), g.n)
        ELSE IF total.v = Zero THEN Fn(Val(Zero), g.n)
        ELSE Fn(Val(RMul(RDiv(used.v, total.v), Hundred)), g.n)

\* ProxmoxNodeDiskUsageSensor._calc
pmx_nodedsk_calc(url, http) ==
    LET g      == pmx_get(url, http)
        d      == Or(g.v, EmptyDict)
        rootfs == Or(Get(d, "rootfs", JNull), EmptyDict)
        total  == Get(rootfs, "total", JInt(0))
        used   == Get(rootfs, "used", JInt(0))
    IN  IF d.t # "dict" THEN Fn(Raised, g.n)
        ELSE IF rootfs.t # "dict" THEN Fn(Val(Zero), g.n)
        ELSE IF ~CanFloat(total) \/ ~CanFloat(used) THEN Fn(Val(Zero), g.n)
        ELSE IF total.v = Zero THEN Fn(Val(Zero), g.n)
        ELSE Fn(Val(RMul(RDiv(used.v, total.v), Hundred)), g.n)

\* ProxmoxNodeUptimeSensor._calc: seconds
pmx_nodeupt_calc(url, http) ==
    LET g   == pmx_get(url, http)
        d   == Or(g.v, EmptyDict)
        upt == Get(d, "uptime", JInt(0))
    IN  IF d.t # "dict" THEN Fn(Raised, g.n)
        ELSE IF ~CanFloat(upt) THEN Fn(Raised, g.n)
        ELSE Fn(Val(upt.v), g.n)

\* "for iface in d": acc is Val(total_rx + total_tx) or Raised
RECURSIVE pmx_net_loop(_, _, _)
pmx_net_loop(ifaces, i, acc) ==
    IF i > Len(ifaces) \/ acc = Raised THEN acc
    ELSE LET iface == ifaces[i] IN
      IF iface.t # "dict" THEN Raised
      ELSE LET rx == Get(iface, "in", JInt(0))
               tx == Get(iface, "out", JInt(0))
           IN IF ~CanFloat(rx) \/ ~CanFloat(tx) THEN Raised
              ELSE pmx_net_loop(ifaces, i + 1, Val(RAdd(acc.v, RAdd(rx.v, tx.v))))

\* ProxmoxNodeNetworkSensor._calc: megabytes
pmx_nodenet_calc(url, http) ==
    LET g   == pmx_get(url, http)
        d   == Or(g.v, EmptyList)
        sum == pmx_net_loop(d.l, 1, Val(Zero))
    IN  IF d.t # "list" THEN Fn(Raised, g.n)
        ELSE IF sum = Raised THEN Fn(Raised, g.n)
        ELSE Fn(Val(RDiv(sum.v, Rat(1024 * 1024, 1))), g.n)

\* ProxmoxVMCountSensor._calc and ProxmoxLXCCountSensor._calc: float(len(q))
pmx_count_calc(url, http) ==
    LET g == pmx_get(url, http)
        q == Or(g.v, EmptyList)
    IN  CASE q.t = "list" -> Fn(Val(Rat(Len(q.l), 1)), g.n)
          [] q.t = "dict" -> Fn(Val(Rat(Cardinality(DOMAIN q.m), 1)), g.n)
          [] q.t = "str"  -> Fn(Val(Rat(Len(q.s), 1)), g.n)
          [] OTHER        -> Fn(Raised, g.n)

\* ProxmoxVMMemoryUsageSensor._calc
pmx_vmmem_calc(url, http) ==
    LET g     == pmx_get(url, http)
        d     == Or(g.v, EmptyDict)
        used  == Get(d, "mem", JInt(0))
        total == Get(d, "maxmem", JInt(1))
    IN  IF d.t # "dict" THEN Fn(Val(Zero), g.n)
        ELSE IF ~CanFloat(used) \/ ~CanFloat(total) THEN Fn(Val(Zero), g.n)
        ELSE IF total.v = Zero THEN Fn(Val(Zero), g.n)
        ELSE Fn(Val(RMul(RDiv(used.v, total.v), Hundred)), g.n)

----------------------------------------------------------------------------
(* The sensor classes *)

PlexNames ==
    {"PlexStreamsSensor", "PlexMovieCountSensor", "PlexTVShowCountSensor",
     "PlexEpisodesCountSensor", "PlexAlbumCountSensor", "PlexSongsCountSensor"}

ProxmoxNames ==
    {"ProxmoxNodeCPUUsageSensor", "ProxmoxNodeMemoryUsageSensor",
     "ProxmoxNodeDiskUsageSensor", "ProxmoxNodeUptimeSensor",
     "ProxmoxNodeNetworkSensor", "ProxmoxVMCountSensor", "ProxmoxLXCCountSensor",
     "ProxmoxVMCPUUsageSensor", "ProxmoxVMMemoryUsageSensor"}

\* the concrete classes, by the file that defines them
Classes ==
    [file : {"custom"}, name : PlexNames \cup ProxmoxNames]
      \cup [file : {"plex"}, name : PlexNames]
      \cup [file : {"proxmox"}, name : ProxmoxNames]

\* the base classes, which define _cached
BaseClasses ==
    {[file |-> "custom", name |-> "PlexBaseSensor"],
     [file |-> "custom", name |-> "ProxmoxBaseSensor"],
     [file |-> "plex", name |-> "PlexBaseSensor"],
     [file |-> "proxmox", name |-> "ProxmoxBaseSensor"]}

\* sensors_custom.py alone keeps _hist
HasHist(c) == c.file = "custom"

\* sensors_custom_proxmox.py alone keeps the entry when fn returns None
RetainsLastGood(c) == c.file = "proxmox"

IsPlexCount(c) == c.name \in PlexNames \ {"PlexStreamsSensor"}

\* what the count sensors count: the directory type, and whether a directory
\* without a key is skipped
CountKind(c) ==
    CASE c.name = "PlexMovieCountSensor"    -> [type |-> "movie", needkey |-> TRUE]
      [] c.name = "PlexTVShowCountSensor"   -> [type |-> "show", needkey |-> FALSE]
      [] c.name = "PlexEpisodesCountSensor" -> [type |-> "show", needkey |-> FALSE]
      [] c.name = "PlexAlbumCountSensor"    -> [type |-> "artist", needkey |-> FALSE]
      [] c.name = "PlexSongsCountSensor"    -> [type |-> "artist", needkey |-> FALSE]

\* the metric key of a class, for node "pve" and vm_id 0
KeyOf(c) ==
    CASE c.name = "PlexStreamsSensor"            -> "streams"
      [] c.name = "PlexMovieCountSensor"         -> "plex_movies"
      [] c.name = "PlexTVShowCountSensor"        -> "plex_shows"
      [] c.name = "PlexEpisodesCountSensor"      -> "plex_eps"
      [] c.name = "PlexAlbumCountSensor"         -> "plex_alb"
      [] c.name = "PlexSongsCountSensor"         -> "plex_sng"
      [] c.name = "ProxmoxNodeCPUUsageSensor"    -> "nodecpu_pve"
      [] c.name = "ProxmoxNodeMemoryUsageSensor" -> "nodemem_pve"
      [] c.name = "ProxmoxNodeDiskUsageSensor"   -> "nodedsk_pve"
      [] c.name = "ProxmoxNodeUptimeSensor"      -> "nodeupt_pve"
      [] c.name = "ProxmoxNodeNetworkSensor"     -> "nodenet_pve"
      [] c.name = "ProxmoxVMCountSensor"         -> "vmcnt_pve"
      [] c.name = "ProxmoxLXCCountSensor"        -> "lxccnt_pve"
      [] c.name = "ProxmoxVMCPUUsageSensor"      -> "vmcpu_pve_0"
      [] c.name = "ProxmoxVMMemoryUsageSensor"   -> "vmmem_pve_0"

\* the compute function the class hands to _cached, run against the backend net
calc(c, url, net) ==
    CASE c.name = "PlexStreamsSensor"            -> plex_streams_fn(url, net)
      [] IsPlexCount(c)                          -> plex_count_fn(CountKind(c), url, net)
      [] c.name = "ProxmoxNodeCPUUsageSensor"    -> pmx_cpu_calc(url, net)
      [] c.name = "ProxmoxNodeMemoryUsageSensor" -> pmx_nodemem_calc(url, net)
      [] c.name = "ProxmoxNodeDiskUsageSensor"   -> pmx_nodedsk_calc(url, net)
      [] c.name = "ProxmoxNodeUptimeSensor"      -> pmx_nodeupt_calc(url, net)
      [] c.name = "ProxmoxNodeNetworkSensor"     -> pmx_nodenet_calc(url, net)
      [] c.name = "ProxmoxVMCountSensor"         -> pmx_count_calc(url, net)
      [] c.name = "ProxmoxLXCCountSensor"        -> pmx_count_calc(url, net)
      [] c.name = "ProxmoxVMCPUUsageSensor"      -> pmx_cpu_calc(url, net)
      [] c.name = "ProxmoxVMMemoryUsageSensor"   -> pmx_vmmem_calc(url, net)

----------------------------------------------------------------------------
(* The TTL cache: _cache and _last are dicts, modelled as functions whose   *)
(* domain is the set of keys present. Stored values are Val(x) or None.     *)

\* d[k] = v
Put(d, k, v) == [x \in DOMAIN d \cup {k} |-> IF x = k THEN v ELSE d[x]]

\* self._last.get(key, 0)
LastOf(last_, key) == IF key \in DOMAIN last_ THEN last_[key] ELSE 0

\* Fresh with the comparison turned around
Fresh_Reversed(cache_, last_, now_, ttl_, key) ==
    key \in DOMAIN cache_ /\ (now_ - LastOf(last_, key)) > ttl_

\* the test that makes _cached return the stored value
Fresh(cache_, last_, now_, ttl_, key) ==
    key \in DOMAIN cache_ /\ (now_ - LastOf(last_, key)) < ttl_

\* the outcome of one _cached call: the dicts after it, the value returned
\* (Raised when fn raised) and whether fn was invoked
Outcome(cache_, last_, ret_, invoked) ==
    [cache |-> cache_, last |-> last_, ret |-> ret_, invoked |-> invoked]

\* cached_accept that keeps the stored value when fn returns a falsy one
cached_accept_SkipsFalsy(cache_, last_, now_, ttl_, key, f) ==
    IF key \in DOMAIN cache_ /\ (now_ - LastOf(last_, key)) < ttl_
    THEN Outcome(cache_, last_, cache_[key], FALSE)
    ELSE IF f.out = Raised
    THEN Outcome(cache_, last_, Raised, TRUE)
    ELSE IF f.out = Val(Zero) /\ key \in DOMAIN cache_
    THEN Outcome(cache_, last_, cache_[key], TRUE)
    ELSE Outcome(Put(cache_, key, f.out), Put(last_, key, now_), f.out, TRUE)

\* cached_accept that drops the entry when fn returns 0.0
cached_accept_DropsZero(cache_, last_, now_, ttl_, key, f) ==
    IF key \in DOMAIN cache_ /\ (now_ - LastOf(last_, key)) < ttl_
    THEN Outcome(cache_, last_, cache_[key], FALSE)
    ELSE IF f.out = Raised
    THEN Outcome(cache_, last_, Raised, TRUE)
    ELSE IF f.out = Val(Zero)
    THEN Outcome([k \in DOMAIN cache_ \ {key} |-> cache_[k]],
                 [k \in DOMAIN last_ \ {key} |-> last_[k]], f.out, TRUE)
    ELSE Outcome(Put(cache_, key, f.out), Put(last_, key, now_), f.out, TRUE)

\* cached_accept without "self._last[key] = now"
cached_accept_NoStamp(cache_, last_, now_, ttl_, key, f) ==
    IF key \in DOMAIN cache_ /\ (now_ - LastOf(last_, key)) < ttl_
    THEN Outcome(cache_, last_, cache_[key], FALSE)
    ELSE IF f.out = Raised
    THEN Outcome(cache_, last_, Raised, TRUE)
    ELSE Outcome(Put(cache_, key, f.out),
                 IF key \in DOMAIN last_ THEN last_ ELSE Put(last_, key, now_),
                 f.out, TRUE)

\* _cached of sensors_custom.py (both base classes) and sensors_custom_plex.py;
\* f is what fn() does if it is invoked
cached_accept(cache_, last_, now_, ttl_, key, f) ==
    IF Fresh(cache_, last_, now_, ttl_, key)
    THEN Outcome(cache_, last_, cache_[key], FALSE)
    ELSE IF f.out = Raised
    THEN Outcome(cache_, last_, Raised, TRUE)
    ELSE Outcome(Put(cache_, key, f.out), Put(last_, key, now_), f.out, TRUE)

\* cached_retain that sets _last[key] before it looks at what fn returned
cached_retain_StampsNone(cache_, last_, now_, ttl_, key, f) ==
    IF key \in DOMAIN cache_ /\ (now_ - LastOf(last_, key)) < ttl_
    THEN Outcome(cache_, last_, cache_[key], FALSE)
    ELSE IF f.out = Raised
    THEN Outcome(cache_, last_, Raised, TRUE)
    ELSE IF f.out = None
    THEN Outcome(cache_, Put(last_, key, now_),
                 IF key \in DOMAIN cache_ THEN cache_[key] ELSE None, TRUE)
    ELSE Outcome(Put(cache_, key, f.out), Put(last_, key, now_), f.out, TRUE)

\* cached_retain storing whatever fn returns, None included
cached_retain_StoresNone(cache_, last_, now_, ttl_, key, f) ==
    IF key \in DOMAIN cache_ /\ (now_ - LastOf(last_, key)) < ttl_
    THEN Outcome(cache_, last_, cache_[key], FALSE)
    ELSE IF f.out = Raised
    THEN Outcome(cache_, last_, Raised, TRUE)
    ELSE Outcome(Put(cache_, key, f.out), Put(last_, key, now_), f.out, TRUE)

\* _cached of sensors_custom_proxmox.py
cached_retain(cache_, last_, now_, ttl_, key, f) ==
    IF Fresh(cache_, last_, now_, ttl_, key)
    THEN Outcome(cache_, last_, cache_[key], FALSE)
    ELSE IF f.out = Raised
    THEN Outcome(cache_, last_, Raised, TRUE)
    ELSE IF f.out = None
    THEN Outcome(cache_, last_,
                 IF key \in DOMAIN cache_ THEN cache_[key] ELSE None, TRUE)
    ELSE Outcome(Put(cache_, key, f.out), Put(last_, key, now_), f.out, TRUE)

\* self._cached(key, fn) of an instance of class c
cached(c, cache_, last_, now_, ttl_, key, f) ==
    IF RetainsLastGood(c)
    THEN cached_retain(cache_, last_, now_, ttl_, key, f)
    ELSE cached_accept(cache_, last_, now_, ttl_, key, f)

----------------------------------------------------------------------------
(* The history buffer *)

\* push dropping the sample just appended
push_DropsNewest(hist_, v) ==
    LET h == Append(hist_, v)
    IN  IF Len(h) > HistCap THEN SubSeq(h, 1, Len(h) - 1) ELSE h

\* _push: append, then drop the head once the length exceeds 200
push(hist_, v) ==
    LET h == Append(hist_, v)
    IN  IF Len(h) > HistCap THEN Tail(h) ELSE h

\* s[-n:]
LastN(s, n) == IF Len(s) <= n THEN s ELSE SubSeq(s, Len(s) - n + 1, Len(s))

\* last_values returning the oldest samples: self._hist[:40]
last_values_Head(c, cache_, hist_) ==
    List(IF Len(hist_) <= ViewLen THEN hist_ ELSE SubSeq(hist_, 1, ViewLen))

\* last_values: self._hist[-40:] in sensors_custom.py, the [] of
\* CustomDataSource in sensors_custom_plex.py, [self._cache.get(key, 0)] in
\* sensors_custom_proxmox.py
last_values(c, cache_, hist_) ==
    CASE c.file = "custom"  -> List(LastN(hist_, ViewLen))
      [] c.file = "plex"    -> List(<<>>)
      [] c.file = "proxmox" ->
           List(<<IF KeyOf(c) \in DOMAIN cache_ THEN cache_[KeyOf(c)] ELSE Val(Zero)>>)

----------------------------------------------------------------------------
(* The read views *)

\* self._cache.get(key, 0)
CacheGet(cache_, key) == IF key \in DOMAIN cache_ THEN cache_[key] ELSE Val(Zero)

\* x - k * floor(x / k): the float x % k for k > 0
RMod(x, k) == RAdd(x, Rat(-(k * RFloor(RDiv(x, Rat(k, 1)))), 1))

\* f"{x:.1f}": the number of tenths nearest to x >= 0
Tenths(x) == RFloor(RAdd(RMul(x, Rat(10, 1)), Rat(1, 2)))

\* f"{int(v)} unit"; int(None) raises
FmtInt(v, unit) == IF v.t # "float" THEN Raised ELSE Str(<<RInt(v.v), unit>>)

\* f"{v:.1f} unit"; formatting None raises
FmtTenths(v, unit) == IF v.t # "float" THEN Raised ELSE Str(<<Tenths(v.v), unit>>)

\* the uptime format with the hours of the whole uptime: sec // 3600
FmtUptime_TotalHours(v) ==
    IF v.t # "float" THEN Raised
    ELSE LET sec == v.v
             d == RFloor(RDiv(sec, Rat(86400, 1)))
             h == RFloor(RDiv(sec, Rat(3600, 1)))
             m == RFloor(RDiv(RMod(sec, 3600), Rat(60, 1)))
         IN  Str(<<d, "d", h, "h", m, "m">>)

\* f"{d}d {h}h {m}m" of sec seconds
FmtUptime(v) ==
    IF v.t # "float" THEN Raised
    ELSE LET sec == v.v
             d == RFloor(RDiv(sec, Rat(86400, 1)))
             h == RFloor(RDiv(RMod(sec, 86400), Rat(3600, 1)))
             m == RFloor(RDiv(RMod(sec, 3600), Rat(60, 1)))
         IN  Str(<<d, "d", h, "h", m, "m">>)

\* as_string of class c: formats the stored value, never calls _cached
as_string(c, cache_) ==
    LET v == CacheGet(cache_, KeyOf(c)) IN
    CASE c.name = "PlexStreamsSensor"            -> FmtInt(v, "streams")
      [] c.name = "PlexMovieCountSensor"         -> FmtInt(v, "movies")
      [] c.name = "PlexTVShowCountSensor"        -> FmtInt(v, "shows")
      [] c.name = "PlexEpisodesCountSensor"      -> FmtInt(v, "episodes")
      [] c.name = "PlexAlbumCountSensor"         -> FmtInt(v, "albums")
      [] c.name = "PlexSongsCountSensor"         -> FmtInt(v, "songs")
      [] c.name = "ProxmoxNodeCPUUsageSensor"    -> FmtTenths(v, "%")
      [] c.name = "ProxmoxNodeMemoryUsageSensor" -> FmtTenths(v, "%")
      [] c.name = "ProxmoxNodeDiskUsageSensor"   -> FmtTenths(v, "%")
      [] c.name = "ProxmoxNodeUptimeSensor"      -> FmtUptime(v)
      [] c.name = "ProxmoxNodeNetworkSensor"     -> FmtTenths(v, "MB")
      [] c.name = "ProxmoxVMCountSensor"         -> FmtInt(v, "VMs")
      [] c.name = "ProxmoxLXCCountSensor"        -> FmtInt(v, "LXC")
      [] c.name = "ProxmoxVMCPUUsageSensor"      -> FmtTenths(v, "%")
      [] c.name = "ProxmoxVMMemoryUsageSensor"   -> FmtTenths(v, "%")

\* what as_numeric makes of the value v that _cached returned: the uptime
\* sensor returns hours (sec / 3600.0, a TypeError on None), the others v
Numeric(c, v) ==
    IF c.name = "ProxmoxNodeUptimeSensor"
    THEN IF v.t = "float" THEN Val(RDiv(v.v, Rat(3600, 1))) ELSE Raised
    ELSE v

\* as_numeric that pushes a sample only when the compute function was invoked
as_numeric_PushOnMiss(c, cache_, last_, hist_, now_, ttl_, f) ==
    LET r == cached(c, cache_, last_, now_, ttl_, KeyOf(c), f)
        v == IF r.ret = Raised THEN Raised ELSE Numeric(c, r.ret)
    IN  [cache   |-> r.cache,
         last    |-> r.last,
         hist    |-> IF HasHist(c) /\ v # Raised /\ r.invoked THEN push(hist_, v) ELSE hist_,
         ret     |-> v,
         raw     |-> r.ret,
         invoked |-> r.invoked,
         reqs    |-> IF r.invoked THEN f.n ELSE 0]

\* as_numeric of class c, f being what its compute function does if invoked:
\* the dicts and the history after the call, the value returned (Raised when
\* the call raised), the value _cached returned, whether fn was invoked and
\* the requests issued
as_numeric(c, cache_, last_, hist_, now_, ttl_, f) ==
    LET r == cached(c, cache_, last_, now_, ttl_, KeyOf(c), f)
        v == IF r.ret = Raised THEN Raised ELSE Numeric(c, r.ret)
    IN  [cache   |-> r.cache,
         last    |-> r.last,
         hist    |-> IF HasHist(c) /\ v # Raised THEN push(hist_, v) ELSE hist_,
         ret     |-> v,
         raw     |-> r.ret,
         invoked |-> r.invoked,
         reqs    |-> IF r.invoked THEN f.n ELSE 0]

----------------------------------------------------------------------------
(* The backends: what the HTTP server answers to the requests of one call *)

\* {"MediaContainer": {"size": sz}}
Container(sz) == JDict([MediaContainer |-> JDict([size |-> sz])])

PlexSizeBodies ==
    {Container(JInt(n)) : n \in 0..MaxVal}
      \cup {Container(JNum(Rat(1, 2))), Container(JStr("many")), Container(JNull),
            JDict([MediaContainer |-> EmptyDict]), JDict([MediaContainer |-> JNull]),
            EmptyDict, JNull, JList(<<JNull>>)}

StreamsNets == Unavailable \cup {Ok(b) : b \in PlexSizeBodies}

\* sequences over S of length at most n
RECURSIVE SeqsUpTo(_, _)
SeqsUpTo(S, n) ==
    IF n = 0 THEN {<<>>}
    ELSE LET shorter == SeqsUpTo(S, n - 1)
         IN  shorter \cup {Append(q, x) : q \in shorter, x \in S}

\* the directories of a sections listing: of the counted type with key "1",
\* of the counted type without a key, and of another type
Dirs(kind) ==
    {JDict([type |-> JStr(kind.type), key |-> JStr("1")]),
     JDict([type |-> JStr(kind.type)]),
     JDict([type |-> JStr("photo"), key |-> JStr("3")])}

\* {"MediaContainer": {"Directory": dirs}}
Sections(dirs) == JDict([MediaContainer |-> JDict([Directory |-> dirs])])

SectionsBodies(kind) ==
    {Sections(JList(l)) : l \in SeqsUpTo(Dirs(kind), MaxDirs)}
      \cup {Sections(JNull), Sections(JList(<<JNull>>)), Sections(EmptyDict),
            JDict([MediaContainer |-> EmptyDict]), JList(<<JNull>>)}

ItemHttp == {NetErr, Ok(Container(JInt(1))), Ok(Container(JInt(MaxVal))), Ok(Container(JNull))}

CountNets(kind) ==
    [sections : {NetErr}, items : {[k \in {"1", "None"} |-> NetErr]}]
      \cup [sections : {Ok(b) : b \in SectionsBodies(kind)},
            items : [{"1", "None"} -> ItemHttp]]

\* {"data": x}
Data(x) == Ok(JDict([data |-> x]))

\* answers that are no Proxmox payload at all
PmxOdd == Unavailable \cup {Ok(EmptyList), Ok(EmptyDict), Data(JNull), Data(JList(<<JNull>>)), Data(JInt(1))}

CpuNets ==
    PmxOdd \cup {Data(JDict([cpu |-> JNum(Rat(k, MaxVal))])) : k \in 0..MaxVal}
           \cup {Data(JDict([cpu |-> JNull])), Data(JDict([cpu |-> JStr("n/a")])),
                 Data(JDict([uptime |-> JInt(1)]))}

UsedTotal ==
    {JDict([used |-> JInt(u), total |-> JInt(t)]) : u \in 0..MaxVal, t \in 0..MaxVal}
      \cup {JDict([used |-> JInt(1)]), JDict([total |-> JInt(MaxVal)]),
            JDict([used |-> JNull, total |-> JInt(1)]), JInt(1), JNull}

NodeMemNets ==
    PmxOdd \cup {Data(JDict([memory |-> m])) : m \in UsedTotal}
           \cup {Data(JDict([cpu |-> JInt(1)]))}

NodeDskNets ==
    PmxOdd \cup {Data(JDict([rootfs |-> m])) : m \in UsedTotal}
           \cup {Data(JDict([cpu |-> JInt(1)]))}

UptimeNets ==
    PmxOdd \cup {Data(JDict([uptime |-> JInt(k * 45030)])) : k \in 0..MaxVal}
           \cup {Data(JDict([uptime |-> JNull])), Data(JDict([uptime |-> JStr("n/a")])),
                 Data(JDict([cpu |-> JInt(1)]))}

Ifaces ==
    {JDict([in |-> JInt(524288), out |-> JInt(524288)]),
     JDict([in |-> JInt(MaxVal * 1048576)]),
     JDict([out |-> JNull])}

NetstatNets ==
    PmxOdd \cup {Data(JList(l)) : l \in SeqsUpTo(Ifaces, MaxDirs)}
           \cup {Data(JDict([in |-> JInt(1)]))}

CountListNets ==
    PmxOdd \cup {Data(JList([i \in 1..n |-> JDict([vmid |-> JInt(100 + i)])])) : n \in 0..MaxVal}
           \cup {Data(JDict([vmid |-> JInt(100)])), Data(JStr("qemu"))}

VMMemNets ==
    PmxOdd \cup {Data(JDict([mem |-> JInt(u), maxmem |-> JInt(t)])) : u \in 0..MaxVal, t \in 0..MaxVal}
           \cup {Data(JDict([mem |-> JInt(1)])), Data(JDict([mem |-> JNull, maxmem |-> JInt(1)]))}

\* the backends a sensor of class c may meet
Nets(c) ==
    CASE c.name = "PlexStreamsSensor"            -> StreamsNets
      [] IsPlexCount(c)                          -> CountNets(CountKind(c))
      [] c.name = "ProxmoxNodeCPUUsageSensor"    -> CpuNets
      [] c.name = "ProxmoxNodeMemoryUsageSensor" -> NodeMemNets
      [] c.name = "ProxmoxNodeDiskUsageSensor"   -> NodeDskNets
      [] c.name = "ProxmoxNodeUptimeSensor"      -> UptimeNets
      [] c.name = "ProxmoxNodeNetworkSensor"     -> NetstatNets
      [] c.name = "ProxmoxVMCountSensor"         -> CountListNets
      [] c.name = "ProxmoxLXCCountSensor"        -> CountListNets
      [] c.name = "ProxmoxVMCPUUsageSensor"      -> CpuNets
      [] c.name = "ProxmoxVMMemoryUsageSensor"   -> VMMemNets

\* the backend is Unavailable: every request of the call fails
NetUnavailable(c, net) ==
    IF IsPlexCount(c)
    THEN IsUnavailable(net.sections) /\ \A k \in DOMAIN net.items : IsUnavailable(net.items[k])
    ELSE IsUnavailable(net)

----------------------------------------------------------------------------
(* The state of one sensor instance and of its observer *)

VARIABLES
    cls,     \* the class of the instance
    url,     \* self.url / self.host, "" when the configuration gives none
    ttl,     \* self._ttl / self.cache_ttl
    now,     \* time.time()
    cache,   \* self._cache
    last,    \* self._last
    hist,    \* self._hist (stays empty in the files that keep no history)
    pushed,  \* observer: every sample handed to _push so far, in order
    ev,      \* observer: the latest operation called and what it did
    fnAt,    \* observer: per key, the latest call that invoked fn
    runs,    \* environment: what the compute function can do when invoked
    feed,    \* environment: the answers a scripted backend has yet to give
    log,     \* observer: the as_numeric calls made against the scripted backend
    conf,    \* the configuration given to __init__ and the fields it set
    thr,     \* per thread of the host: where it is in as_numeric, and its locals
    heap,    \* the dicts and lists created by the instances of the host
    inst     \* the instances of the host: their class and the objects they hold

vars == <<cls, url, ttl, now, cache, last, hist, pushed, ev, fnAt, runs, feed, log, conf, thr, heap, inst>>

Urls == {"", "http://host"}

\* the threads of the host that may call the sensor
Threads == {1, 2}

\* no thread is inside a call
NoCalls == [t \in Threads |-> [pc |-> "idle", at |-> 0, v |-> None, calls |-> 0]]

\* the configuration is not looked at: url and ttl are given directly
NoConf == [config |-> <<>>, section |-> <<>>, self |-> None]

\* What the observer notes of a call of as_numeric or _cached for key, made
\* with the compute function running as in run and ending as in r:
\*   at      the time of the call
\*   had     the key had an entry before the call, old being its value
\*   age     now - _last[key] before the call (-1 without an entry)
\*   ret     the value returned, Raised when the call raised
\*   raw     the value _cached returned
\*   invoked fn was invoked; fnout: "float", "None" or "raise", what it did
\*   reqs    the calls of requests.get
\*   down    the backend was Unavailable at the time of the call
\*   since   now - the time of the latest earlier call for key that invoked
\*           fn (-1 if there is none), prevout being what fn did then
CallEvent(op, key, run, r, ret, reqs) ==
    [op      |-> op,
     key     |-> key,
     at      |-> now,
     had     |-> key \in DOMAIN cache,
     old     |-> IF key \in DOMAIN cache THEN cache[key] ELSE None,
     age     |-> IF key \in DOMAIN last THEN now - last[key] ELSE -1,
     ret     |-> ret,
     raw     |-> r.ret,
     invoked |-> r.invoked,
     fnout   |-> IF r.invoked THEN run.f.out.t ELSE "-",
     reqs    |-> reqs,
     down    |-> run.unavail,
     since   |-> IF key \in DOMAIN fnAt THEN now - fnAt[key].at ELSE -1,
     prevout |-> IF key \in DOMAIN fnAt THEN fnAt[key].out ELSE "-"]

\* fnAt after that call
Invocations(key, run, r) ==
    IF r.invoked THEN Put(fnAt, key, [at |-> now, out |-> run.f.out.t]) ELSE fnAt

\* What the observer notes of a read view: the value returned, the calls of
\* requests.get and the operation called right before
ViewEvent(op, ret) == [op |-> op, ret |-> ret, reqs |-> 0, after |-> ev.op]

NoEvent == [op |-> "new"]

Calls == {"as_numeric", "_cached"}
Views == {"as_string", "last_values"}

\* what the compute function of class c does against the backend net, and
\* whether that backend is Unavailable
Run(c, u, net) == [f |-> calc(c, u, net), unavail |-> NetUnavailable(c, net)]

\* the runs of the compute function over the backends of the model
Runs(c, u) == {Run(c, u, net) : net \in Nets(c)}

Fields ==
    /\ cache = <<>>
    /\ last = <<>>
    /\ hist = <<>>
    /\ pushed = <<>>
    /\ ev = NoEvent
    /\ fnAt = <<>>
    /\ feed = <<>>
    /\ log = <<>>
    /\ conf = NoConf
    /\ thr = NoCalls
    /\ heap = <<>>
    /\ inst = <<>>

\* a sensor right after __init__
Init ==
    /\ cls \in Classes
    /\ url \in Urls
    /\ ttl \in {0, MaxTTL}
    /\ now = 0
    /\ runs = Runs(cls, url)
    /\ Fields

\* time passes between two operations
Tick ==
    /\ now < MaxTime
    /\ now' = now + 1
    /\ UNCHANGED <<cls, url, ttl, cache, last, hist, pushed, ev, fnAt, runs, feed, log, conf, thr, heap, inst>>

\* as_numeric() with the compute function running as in run
AsNumericWith(run) ==
    LET r == as_numeric(cls, cache, last, hist, now, ttl, run.f)
    IN  /\ cache' = r.cache
        /\ last' = r.last
        /\ hist' = r.hist
        /\ pushed' = IF HasHist(cls) /\ r.ret # Raised THEN Append(pushed, r.ret) ELSE pushed
        /\ ev' = CallEvent("as_numeric", KeyOf(cls), run, [ret |-> r.raw, invoked |-> r.invoked],
                           r.ret, r.reqs)
        /\ fnAt' = Invocations(KeyOf(cls), run, r)
        /\ UNCHANGED <<cls, url, ttl, now, runs>>

AsNumeric ==
    /\ Len(pushed) < MaxSamples
    /\ \E run \in runs : AsNumericWith(run)
    /\ UNCHANGED <<feed, log, conf, thr, heap, inst>>

\* as_string going through as_numeric, so that a stale entry is fetched again
AsString_Refetch ==
    \E run \in runs :
        LET r == as_numeric(cls, cache, last, hist, now, ttl, run.f)
        IN  /\ cache' = r.cache
            /\ last' = r.last
            /\ ev' = ViewEvent("as_string", as_string(cls, r.cache))
            /\ UNCHANGED <<cls, url, ttl, now, hist, pushed, fnAt, runs, feed, log, conf, thr, heap, inst>>

\* as_string()
AsString ==
    /\ ev' = ViewEvent("as_string", as_string(cls, cache))
    /\ UNCHANGED <<cls, url, ttl, now, cache, last, hist, pushed, fnAt, runs, feed, log, conf, thr, heap, inst>>

\* last_values handing out the history and starting a new one
LastValues_Drains ==
    /\ ev' = ViewEvent("last_values", last_values(cls, cache, hist))
    /\ hist' = <<>>
    /\ UNCHANGED <<cls, url, ttl, now, cache, last, pushed, fnAt, runs, feed, log, conf, thr, heap, inst>>

\* last_values()
LastValues ==
    /\ ev' = ViewEvent("last_values", last_values(cls, cache, hist))
    /\ UNCHANGED <<cls, url, ttl, now, cache, last, hist, pushed, fnAt, runs, feed, log, conf, thr, heap, inst>>

Next == Tick \/ AsNumeric \/ AsString \/ LastValues

Spec == Init /\ [][Next]_vars

----------------------------------------------------------------------------
(* _cached on its own: the base classes, called with any key and any        *)
(* compute function                                                         *)

HarnessKeys == {"k1", "k2"}

\* the compute functions handed to _cached: they return a float or None, or
\* raise, and issue no request of their own
FnRuns ==
    {[f |-> Fn(out, 0), unavail |-> out = None] :
        out \in {Val(Rat(n, 1)) : n \in 0..MaxVal} \cup {None, Raised}}

InitCached ==
    /\ cls \in BaseClasses
    /\ url = "http://host"
    /\ ttl \in {0, MaxTTL}
    /\ now = 0
    /\ runs = FnRuns
    /\ Fields

\* self._cached(key, fn)
CachedCall ==
    \E key \in HarnessKeys, run \in runs :
        LET r == cached(cls, cache, last, now, ttl, key, run.f)
        IN  /\ cache' = r.cache
            /\ last' = r.last
            /\ ev' = CallEvent("_cached", key, run, r, r.ret, 0)
            /\ fnAt' = Invocations(key, run, r)
            /\ UNCHANGED <<cls, url, ttl, now, hist, pushed, runs, feed, log, conf, thr, heap, inst>>

NextCached == Tick \/ CachedCall

SpecCached == InitCached /\ [][NextCached]_vars

----------------------------------------------------------------------------
(* The history buffer at its capacity: a sensor of sensors_custom.py with   *)
(* cache_ttl 0, polled against a backend whose k-th answer carries k        *)

HistClasses ==
    {[file |-> "custom", name |-> "PlexStreamsSensor"],
     [file |-> "custom", name |-> "ProxmoxNodeCPUUsageSensor"]}

\* the answer to the k-th poll: k streams, a cpu load of k / 100
HistNet(c, k) ==
    IF c.name = "PlexStreamsSensor"
    THEN Ok(Container(JInt(k)))
    ELSE Data(JDict([cpu |-> JNum(Rat(k, 100))]))

InitHist ==
    /\ cls \in HistClasses
    /\ url = "http://host"
    /\ ttl = 0
    /\ now = 0
    /\ runs = {}
    /\ Fields

HistAsNumeric ==
    /\ Len(pushed) < MaxPushes
    /\ AsNumericWith(Run(cls, url, HistNet(cls, Len(pushed) + 1)))
    /\ UNCHANGED <<feed, log, conf, thr, heap, inst>>

NextHist == HistAsNumeric \/ LastValues

SpecHist == InitHist /\ [][NextHist]_vars

----------------------------------------------------------------------------
(* A scripted backend: a streams sensor with the default cache_ttl, polled  *)
(* at chosen instants against a backend that answers 10 streams, then is    *)
(* Unavailable, then answers 20 streams, one answer per request             *)

ScriptClasses ==
    {[file |-> "custom", name |-> "PlexStreamsSensor"],
     [file |-> "plex", name |-> "PlexStreamsSensor"]}

\* the instants at which the host may poll
Instants == {0, 5, 30, 31, 32, 61}

Script(down) == <<Ok(Container(JInt(10))), down, Ok(Container(JInt(20)))>>

InitScript ==
    /\ cls \in ScriptClasses
    /\ url = "http://host"
    /\ ttl = DefaultTTL
    /\ now = 0
    /\ runs = {}
    /\ cache = <<>>
    /\ last = <<>>
    /\ hist = <<>>
    /\ pushed = <<>>
    /\ ev = NoEvent
    /\ fnAt = <<>>
    /\ feed \in {Script(down) : down \in Unavailable}
    /\ log = <<>>
    /\ conf = NoConf
    /\ thr = NoCalls
    /\ heap = <<>>
    /\ inst = <<>>

\* time passes up to a later instant
Advance ==
    /\ \E t \in Instants : t > now /\ now' = t
    /\ UNCHANGED <<cls, url, ttl, cache, last, hist, pushed, ev, fnAt, runs, feed, log, conf, thr, heap, inst>>

\* as_numeric(): a request, if one is made, gets the next answer of the script
ScriptAsNumeric ==
    /\ Len(log) < MaxReads
    /\ feed # <<>>
    /\ LET run == Run(cls, url, Head(feed))
           r   == as_numeric(cls, cache, last, hist, now, ttl, run.f)
       IN  /\ AsNumericWith(run)
           /\ feed' = IF r.invoked THEN Tail(feed) ELSE feed
           /\ log' = Append(log, [at |-> now, ret |-> r.ret, invoked |-> r.invoked,
                                  net |-> Head(feed)])
    /\ UNCHANGED <<conf, thr, heap, inst>>

NextScript == Advance \/ ScriptAsNumeric

SpecScript == InitScript /\ [][NextScript]_vars

----------------------------------------------------------------------------
(* One answer: a sensor of any class polled against a backend that gives    *)
(* one answer, any of those the class may meet                              *)

InitAnswer ==
    /\ cls \in Classes
    /\ url = "http://host"
    /\ ttl \in {0, MaxTTL}
    /\ now = 0
    /\ runs = {}
    /\ cache = <<>>
    /\ last = <<>>
    /\ hist = <<>>
    /\ pushed = <<>>
    /\ ev = NoEvent
    /\ fnAt = <<>>
    /\ feed \in {<<net>> : net \in Nets(cls)}
    /\ log = <<>>
    /\ conf = NoConf
    /\ thr = NoCalls
    /\ heap = <<>>
    /\ inst = <<>>

NextAnswer == Tick \/ ScriptAsNumeric \/ AsString

SpecAnswer == InitAnswer /\ [][NextAnswer]_vars

----------------------------------------------------------------------------
(* Construction: __init__ merges the backend section of config.yaml with    *)
(* the instance overrides. A string is the sequence of its parts, so that   *)
(* rstrip, the test for "!" and the f-strings are computed on it.           *)

Text(parts) == [t |-> "text", p |-> parts]
Flag(b)     == [t |-> "bool", b |-> b]
Num(n)      == [t |-> "int", n |-> n]

\* bool(v)
CfgTruthy(v) ==
    CASE v.t = "None" -> FALSE
      [] v.t = "text" -> v.p # <<>>
      [] v.t = "bool" -> v.b
      [] v.t = "int"  -> v.n # 0

\* d.get(k, dflt)
CfgGet(d, k, dflt) == IF k \in DOMAIN d THEN d[k] ELSE dflt

\* a or b
CfgOr(a, b) == IF CfgTruthy(a) THEN a ELSE b

\* s.rstrip("/")
RECURSIVE RStrip(_)
RStrip(parts) ==
    IF parts # <<>> /\ parts[Len(parts)] = "/"
    THEN RStrip(SubSeq(parts, 1, Len(parts) - 1))
    ELSE parts

\* "!" in s
HasBang(parts) == \E i \in 1..Len(parts) : parts[i] = "!"

\* f"{v}": a string as it is, None as the text None
Format(v) == IF v.t = "text" THEN v.p ELSE <<"None">>

\* __init__ attaching the header as soon as a token id is configured
pmx_init_AnyToken(config, prox) ==
    LET host         == CfgOr(CfgOr(CfgGet(config, "host", None), CfgGet(prox, "host", None)),
                              Text(<<>>))
        username     == CfgOr(CfgGet(config, "username", None), CfgGet(prox, "username", None))
        token_id     == CfgOr(CfgGet(config, "token_id", None), CfgGet(prox, "token_id", None))
        token_secret == CfgOr(CfgOr(CfgGet(config, "token_secret", None),
                                    CfgGet(prox, "token_secret", None)), Text(<<>>))
        node         == CfgOr(CfgOr(CfgGet(config, "node", None), CfgGet(prox, "node", None)),
                              Text(<<"pve">>))
        verify_ssl   == Flag(CfgTruthy(CfgGet(config, "verify_ssl",
                                              CfgGet(prox, "verify_ssl", Flag(TRUE)))))
        cache_ttl    == CfgGet(config, "cache_ttl", CfgGet(prox, "cache_ttl", Num(DefaultTTL)))
        api_base     == IF CfgTruthy(host) THEN RStrip(host.p) \o <<"/api2/json">> ELSE <<>>
        token_full   == IF HasBang(token_id.p)
                        THEN token_id.p \o <<"=">> \o token_secret.p
                        ELSE Format(username) \o <<"!">> \o token_id.p \o <<"=">> \o token_secret.p
        accept       == [Accept |-> <<"application/json">>]
    IN  [fields  |-> [host |-> host, username |-> username, token_id |-> token_id,
                      token_secret |-> token_secret, node |-> node,
                      verify_ssl |-> verify_ssl, cache_ttl |-> cache_ttl],
         base    |-> api_base,
         headers |-> IF CfgTruthy(token_id)
                     THEN Put(accept, "Authorization", <<"PVEAPIToken=">> \o token_full)
                     ELSE accept]

\* ProxmoxBaseSensor.__init__(config), prox being the PROXMOX section
pmx_init(config, prox) ==
    LET host         == CfgOr(CfgOr(CfgGet(config, "host", None), CfgGet(prox, "host", None)),
                              Text(<<>>))
        username     == CfgOr(CfgGet(config, "username", None), CfgGet(prox, "username", None))
        token_id     == CfgOr(CfgGet(config, "token_id", None), CfgGet(prox, "token_id", None))
        token_secret == CfgOr(CfgOr(CfgGet(config, "token_secret", None),
                                    CfgGet(prox, "token_secret", None)), Text(<<>>))
        node         == CfgOr(CfgOr(CfgGet(config, "node", None), CfgGet(prox, "node", None)),
                              Text(<<"pve">>))
        verify_ssl   == Flag(CfgTruthy(CfgGet(config, "verify_ssl",
                                              CfgGet(prox, "verify_ssl", Flag(TRUE)))))
        cache_ttl    == CfgGet(config, "cache_ttl", CfgGet(prox, "cache_ttl", Num(DefaultTTL)))
        api_base     == IF CfgTruthy(host) THEN RStrip(host.p) \o <<"/api2/json">> ELSE <<>>
        token_full   == IF HasBang(token_id.p)
                        THEN token_id.p \o <<"=">> \o token_secret.p
                        ELSE Format(username) \o <<"!">> \o token_id.p \o <<"=">> \o token_secret.p
        accept       == [Accept |-> <<"application/json">>]
    IN  [fields  |-> [host |-> host, username |-> username, token_id |-> token_id,
                      token_secret |-> token_secret, node |-> node,
                      verify_ssl |-> verify_ssl, cache_ttl |-> cache_ttl],
         base    |-> api_base,
         headers |-> IF CfgTruthy(token_id) /\ CfgTruthy(token_secret)
                     THEN Put(accept, "Authorization", <<"PVEAPIToken=">> \o token_full)
                     ELSE accept]

\* PlexBaseSensor.__init__(config), plex being the PLEX section: config is
\* not read
plex_init(config, plex) ==
    LET base   == Text(RStrip(CfgGet(plex, "url", Text(<<>>)).p))
        token  == CfgGet(plex, "token", Text(<<>>))
        accept == [Accept |-> <<"application/json">>]
    IN  [fields  |-> [url |-> base, token |-> token,
                      cache_ttl |-> CfgGet(plex, "cache_ttl", Num(DefaultTTL))],
         base    |-> base.p,
         headers |-> IF CfgTruthy(token) THEN Put(accept, "X-Plex-Token", token.p) ELSE accept]

IsPlex(c) == c.name \in PlexNames \cup {"PlexBaseSensor"}

init(c, config, section) ==
    IF IsPlex(c) THEN plex_init(config, section) ELSE pmx_init(config, section)

\* the values an override may give to a key, falsy ones among them
OverVals(k) ==
    CASE k = "host"         -> {Text(<<>>), Text(<<"https://a", "/">>)}
      [] k = "url"          -> {Text(<<>>), Text(<<"http://a", "/">>)}
      [] k = "username"     -> {Text(<<>>), Text(<<"ua">>)}
      [] k = "token"        -> {Text(<<>>), Text(<<"ka">>)}
      [] k = "token_id"     -> {Text(<<>>), Text(<<"ta">>), Text(<<"ua", "!", "ta">>)}
      [] k = "token_secret" -> {Text(<<>>), Text(<<"sa">>)}
      [] k = "node"         -> {Text(<<>>), Text(<<"na">>)}
      [] k = "verify_ssl"   -> {Flag(FALSE), Flag(TRUE)}
      [] k = "cache_ttl"    -> {Num(0), Num(7)}

\* the keys of the backend section of a family
ConfigKeys(c) ==
    IF IsPlex(c)
    THEN {"url", "token", "cache_ttl"}
    ELSE {"host", "username", "token_id", "token_secret", "node", "verify_ssl", "cache_ttl"}

\* the instance overrides: dicts with at most MaxKeys of the keys
Overrides(c) ==
    UNION {{d \in [S -> UNION {OverVals(k) : k \in S}] : \A k \in S : d[k] \in OverVals(k)} :
              S \in {T \in SUBSET ConfigKeys(c) : Cardinality(T) <= MaxKeys}}

\* the backend sections of config.yaml: none, one giving the host alone, one
\* giving every key
SectionsOf(c) ==
    IF IsPlex(c)
    THEN {<<>>,
          [url |-> Text(<<"http://b">>)],
          [url |-> Text(<<"http://b", "/">>), token |-> Text(<<"kb">>), cache_ttl |-> Num(5)]}
    ELSE {<<>>,
          [host |-> Text(<<"https://b">>)],
          [host |-> Text(<<"https://b">>), username |-> Text(<<"ub">>),
           token_id |-> Text(<<"tb">>), token_secret |-> Text(<<"sb">>),
           node |-> Text(<<"nb">>), verify_ssl |-> Flag(FALSE), cache_ttl |-> Num(5)]}

InitConfig ==
    /\ cls \in BaseClasses
    /\ url = ""
    /\ ttl = 0
    /\ now = 0
    /\ runs = {}
    /\ cache = <<>>
    /\ last = <<>>
    /\ hist = <<>>
    /\ pushed = <<>>
    /\ ev = NoEvent
    /\ fnAt = <<>>
    /\ feed = <<>>
    /\ log = <<>>
    /\ \E config \in Overrides(cls), section \in SectionsOf(cls) :
           conf = [config |-> config, section |-> section, self |-> None]
    /\ thr = NoCalls
    /\ heap = <<>>
    /\ inst = <<>>

\* __init__(config); of the base URL the rest of the model keeps whether it
\* is empty
Construct ==
    /\ conf.self = None
    /\ LET self == init(cls, conf.config, conf.section)
       IN  /\ conf' = [conf EXCEPT !.self = self]
           /\ url' = IF self.base = <<>> THEN "" ELSE "http://host"
           /\ ttl' = self.fields.cache_ttl.n
    /\ UNCHANGED <<cls, now, cache, last, hist, pushed, ev, fnAt, runs, feed, log, thr, heap, inst>>

NextConfig == Construct

SpecConfig == InitConfig /\ [][NextConfig]_vars

----------------------------------------------------------------------------
(* Two threads of the host calling as_numeric on one instance. The source   *)
(* takes no lock; a thread may be preempted between any two statements of   *)
(* _cached and as_numeric, and fn() waits on the network.                   *)

\* one class per implementation of _cached
ThreadClasses ==
    {[file |-> "custom", name |-> "PlexStreamsSensor"],
     [file |-> "custom", name |-> "ProxmoxNodeCPUUsageSensor"],
     [file |-> "plex", name |-> "PlexStreamsSensor"],
     [file |-> "proxmox", name |-> "ProxmoxNodeCPUUsageSensor"]}

InitThreads ==
    /\ cls \in ThreadClasses
    /\ url = "http://host"
    /\ ttl \in {0, MaxTTL}
    /\ now = 0
    /\ runs = Runs(cls, url)
    /\ Fields

\* where a thread goes when _cached has returned v: to _push, or out
Returned(t, v) ==
    [thr EXCEPT ![t].pc = IF HasHist(cls) THEN "push" ELSE "idle", ![t].v = v]

\* now = time.time(); if key in self._cache and (now - ...) < ttl: return
Check(t) ==
    /\ thr[t].pc = "idle"
    /\ thr[t].calls < MaxSamples
    /\ LET here == [thr EXCEPT ![t].at = now, ![t].calls = @ + 1]
       IN  thr' = IF Fresh(cache, last, now, ttl, KeyOf(cls))
                  THEN [here EXCEPT ![t].pc = IF HasHist(cls) THEN "push" ELSE "idle",
                                    ![t].v = cache[KeyOf(cls)]]
                  ELSE [here EXCEPT ![t].pc = "fetch"]
    /\ UNCHANGED <<cls, url, ttl, now, cache, last, hist, pushed, ev, fnAt, runs, feed, log, conf, heap, inst>>

\* v = fn()
Fetch(t) ==
    /\ thr[t].pc = "fetch"
    /\ \E run \in runs :
          thr' = IF run.f.out = Raised
                 THEN [thr EXCEPT ![t].pc = "idle"]
                 ELSE IF RetainsLastGood(cls) /\ run.f.out = None
                 THEN Returned(t, IF KeyOf(cls) \in DOMAIN cache THEN cache[KeyOf(cls)] ELSE None)
                 ELSE [thr EXCEPT ![t].pc = "store", ![t].v = run.f.out]
    /\ UNCHANGED <<cls, url, ttl, now, cache, last, hist, pushed, ev, fnAt, runs, feed, log, conf, heap, inst>>

\* self._cache[key] = v
Store(t) ==
    /\ thr[t].pc = "store"
    /\ cache' = Put(cache, KeyOf(cls), thr[t].v)
    /\ thr' = [thr EXCEPT ![t].pc = "stamp"]
    /\ UNCHANGED <<cls, url, ttl, now, last, hist, pushed, ev, fnAt, runs, feed, log, conf, heap, inst>>

\* self._last[key] = now; return v
Stamp(t) ==
    /\ thr[t].pc = "stamp"
    /\ last' = Put(last, KeyOf(cls), thr[t].at)
    /\ thr' = Returned(t, thr[t].v)
    /\ UNCHANGED <<cls, url, ttl, now, cache, hist, pushed, ev, fnAt, runs, feed, log, conf, heap, inst>>

\* self._push(v); return v
Push(t) ==
    /\ thr[t].pc = "push"
    /\ hist' = push(hist, Numeric(cls, thr[t].v))
    /\ pushed' = Append(pushed, Numeric(cls, thr[t].v))
    /\ thr' = [thr EXCEPT ![t].pc = "idle"]
    /\ UNCHANGED <<cls, url, ttl, now, cache, last, ev, fnAt, runs, feed, log, conf, heap, inst>>

NextThreads ==
    \/ Tick
    \/ \E t \in Threads : Check(t) \/ Fetch(t) \/ Store(t) \/ Stamp(t) \/ Push(t)

SpecThreads == InitThreads /\ [][NextThreads]_vars

----------------------------------------------------------------------------
(* The uptime sensor against a node that reports an uptime of s seconds     *)

UptimeClasses ==
    {[file |-> "custom", name |-> "ProxmoxNodeUptimeSensor"],
     [file |-> "proxmox", name |-> "ProxmoxNodeUptimeSensor"]}

\* uptimes around the turns of the minute, the hour and the day
UptimeSeconds ==
    {d * 86400 + h * 3600 + m * 60 + x :
        d \in 0..MaxVal, h \in {0, 1, 23}, m \in {0, 1, 59}, x \in {0, 1, 59}}

\* {"data": {"uptime": s}}
UptimeOf(s) == Data(JDict([uptime |-> JInt(s)]))

InitUptime ==
    /\ cls \in UptimeClasses
    /\ url = "http://host"
    /\ ttl \in {0, MaxTTL}
    /\ now = 0
    /\ runs = {}
    /\ cache = <<>>
    /\ last = <<>>
    /\ hist = <<>>
    /\ pushed = <<>>
    /\ ev = NoEvent
    /\ fnAt = <<>>
    /\ feed \in {<<UptimeOf(s)>> : s \in UptimeSeconds}
    /\ log = <<>>
    /\ conf = NoConf
    /\ thr = NoCalls
    /\ heap = <<>>
    /\ inst = <<>>

NextUptime == Tick \/ ScriptAsNumeric \/ AsString

SpecUptime == InitUptime /\ [][NextUptime]_vars

----------------------------------------------------------------------------
(* A long run of polls: a sensor of sensors_custom.py polled in bursts of    *)
(* calls against a backend whose k-th answer carries k, but for one early    *)
(* answer that is a failure or a body of another shape                       *)

PollClasses ==
    {[file |-> "custom", name |-> "PlexStreamsSensor"],
     [file |-> "custom", name |-> "ProxmoxNodeCPUUsageSensor"],
     [file |-> "custom", name |-> "ProxmoxNodeUptimeSensor"]}

\* the k-th answer: k streams, a cpu load of k / 100, an uptime of k hours
PollNet(c, k) ==
    IF c.name = "ProxmoxNodeUptimeSensor" THEN UptimeOf(3600 * k) ELSE HistNet(c, k)

\* a failed request, a body that is a list, a "data" that is a list
PollBad == {NetErr, Ok(JList(<<JNull>>)), Data(JList(<<JNull>>))}

\* the answers of the backend, the one at position bad (if any) being net
PollFeed(c, bad, net) ==
    [k \in 1..MaxPushes |-> IF k = bad THEN net ELSE PollNet(c, k)]

InitPolls ==
    /\ cls \in PollClasses
    /\ url = "http://host"
    /\ ttl \in {0, MaxTTL}
    /\ now = 0
    /\ runs = {}
    /\ cache = <<>>
    /\ last = <<>>
    /\ hist = <<>>
    /\ pushed = <<>>
    /\ ev = NoEvent
    /\ fnAt = <<>>
    /\ feed \in {PollFeed(cls, bad, net) : bad \in 0..2, net \in PollBad}
    /\ log = <<>>
    /\ conf = NoConf
    /\ thr = NoCalls
    /\ heap = <<>>
    /\ inst = <<>>

\* time passes between two bursts
Pause ==
    /\ Len(log) % Burst = 0
    /\ Tick

\* as_numeric(): a request, if one is made, gets the next answer of the backend
PollAsNumeric ==
    /\ Len(log) < MaxPushes
    /\ feed # <<>>
    /\ LET run == Run(cls, url, Head(feed))
           r   == as_numeric(cls, cache, last, hist, now, ttl, run.f)
       IN  /\ AsNumericWith(run)
           /\ feed' = IF r.invoked THEN Tail(feed) ELSE feed
           /\ log' = Append(log, [at |-> now, ret |-> r.ret, invoked |-> r.invoked,
                                  net |-> Head(feed)])
    /\ UNCHANGED <<conf, thr, heap, inst>>

NextPolls == Pause \/ PollAsNumeric

SpecPolls == InitPolls /\ [][NextPolls]_vars

----------------------------------------------------------------------------
(* Several instances in one host. The dicts and the list of an instance are *)
(* objects of the heap, which the instance holds by reference: __init__     *)
(* creates them, _cached and _push mutate them.                             *)

Names == {"A", "B"}

\* a class with a history and accept-on-failure, one without a history and
\* with retain-last-good; instance A is of class cls, B of either class
InstClasses ==
    {[file |-> "custom", name |-> "PlexStreamsSensor"],
     [file |-> "proxmox", name |-> "ProxmoxNodeCPUUsageSensor"]}

\* the backend of an instance is down, answers one, or answers a body that
\* makes the compute function raise
InstNets(c) ==
    IF c.name = "PlexStreamsSensor"
    THEN {NetErr, Ok(Container(JInt(1))), Ok(Container(JNull))}
    ELSE {NetErr, Data(JDict([cpu |-> JInt(1)])), Data(JInt(1))}

InitInstances ==
    /\ cls \in InstClasses
    /\ url = "http://host"
    /\ ttl \in {0, MaxTTL}
    /\ now = 0
    /\ runs = {}
    /\ Fields

\* the objects an instance holds
CacheOf(i) == heap[inst[i].cache]
LastOf_(i) == heap[inst[i].last]
HistOf(i)  == heap[inst[i].hist]

\* __init__ sharing what it creates: the first instance creates the dicts and
\* the list, the others take the same objects
New_Shared(i) ==
    /\ i \notin DOMAIN inst
    /\ \E c \in IF i = "A" THEN {cls} ELSE InstClasses :
          /\ heap' = IF heap = <<>> THEN <<<<>>, <<>>, <<>>>> ELSE heap
          /\ inst' = Put(inst, i, [cls |-> c, cache |-> 1, last |-> 2, hist |-> 3])
    /\ UNCHANGED <<cls, url, ttl, now, cache, last, hist, pushed, ev, fnAt, runs, feed, log, conf, thr>>

\* __init__: self._cache = {}; self._last = {}; self._hist = []
New(i) ==
    /\ i \notin DOMAIN inst
    /\ \E c \in IF i = "A" THEN {cls} ELSE InstClasses :
          /\ heap' = heap \o <<<<>>, <<>>, <<>>>>
          /\ inst' = Put(inst, i, [cls |-> c, cache |-> Len(heap) + 1,
                                  last |-> Len(heap) + 2, hist |-> Len(heap) + 3])
    /\ UNCHANGED <<cls, url, ttl, now, cache, last, hist, pushed, ev, fnAt, runs, feed, log, conf, thr>>

\* as_numeric() of instance i
InstAsNumeric(i) ==
    /\ i \in DOMAIN inst
    /\ Len(HistOf(i)) < MaxSamples
    /\ \E run \in {Run(inst[i].cls, url, net) : net \in InstNets(inst[i].cls)} :
          LET r == as_numeric(inst[i].cls, CacheOf(i), LastOf_(i), HistOf(i), now, ttl, run.f)
          IN  /\ heap' = [heap EXCEPT ![inst[i].cache] = r.cache,
                                      ![inst[i].last] = r.last,
                                      ![inst[i].hist] = r.hist]
              /\ ev' = [op |-> "as_numeric", inst |-> i, ret |-> r.ret, down |-> run.unavail]
    /\ UNCHANGED <<cls, url, ttl, now, cache, last, hist, pushed, fnAt, runs, feed, log, conf, thr, inst>>

\* as_string() of instance i
InstAsString(i) ==
    /\ i \in DOMAIN inst
    /\ ev' = [op |-> "as_string", inst |-> i, ret |-> as_string(inst[i].cls, CacheOf(i)),
              down |-> FALSE]
    /\ UNCHANGED <<cls, url, ttl, now, cache, last, hist, pushed, fnAt, runs, feed, log, conf, thr, heap, inst>>

\* last_values() of instance i
InstLastValues(i) ==
    /\ i \in DOMAIN inst
    /\ ev' = [op |-> "last_values", inst |-> i,
              ret |-> last_values(inst[i].cls, CacheOf(i), HistOf(i)), down |-> FALSE]
    /\ UNCHANGED <<cls, url, ttl, now, cache, last, hist, pushed, fnAt, runs, feed, log, conf, thr, heap, inst>>

NextInstances ==
    \/ Tick
    \/ \E i \in Names : New(i) \/ InstAsNumeric(i) \/ InstAsString(i) \/ InstLastValues(i)

SpecInstances == InitInstances /\ [][NextInstances]_vars

----------------------------------------------------------------------------
(* The two definitions of one class side by side: the sensor is an instance *)
(* of the class of sensors_custom.py, its twin an instance of the class of  *)
(* the same name of sensors_custom_plex.py or sensors_custom_proxmox.py.    *)
(* Both are given the same configuration, read the same clock and get the   *)
(* same answers from the backend.                                           *)

\* the class of the same name in the other file that defines it
Twin(c) == [file |-> IF c.name \in PlexNames THEN "plex" ELSE "proxmox", name |-> c.name]

TwinClasses == [file : {"custom"}, name : PlexNames \cup ProxmoxNames]

\* what the compute functions of the two classes do against one backend
TwinRuns(c, u) ==
    {[own |-> Run(c, u, net), twin |-> Run(Twin(c), u, net)] : net \in Nets(c)}

InitTwins ==
    /\ cls \in TwinClasses
    /\ url \in Urls
    /\ ttl \in {0, MaxTTL}
    /\ now = 0
    /\ runs = TwinRuns(cls, url)
    /\ cache = <<>>
    /\ last = <<>>
    /\ hist = <<>>
    /\ pushed = <<>>
    /\ ev = NoEvent
    /\ fnAt = <<>>
    /\ feed = <<>>
    /\ log = <<>>
    /\ conf = NoConf
    /\ thr = NoCalls
    /\ heap = <<<<>>, <<>>, <<>>>>
    /\ inst = [i \in {"B"} |-> [cls |-> Twin(cls), cache |-> 1, last |-> 2, hist |-> 3]]

\* as_numeric() of the sensor and of its twin
TwinAsNumeric ==
    /\ Len(pushed) < MaxSamples
    /\ \E run \in runs :
          LET t == as_numeric(inst["B"].cls, CacheOf("B"), LastOf_("B"), HistOf("B"),
                              now, ttl, run.twin.f)
          IN  /\ AsNumericWith(run.own)
              /\ heap' = [heap EXCEPT ![inst["B"].cache] = t.cache,
                                      ![inst["B"].last] = t.last,
                                      ![inst["B"].hist] = t.hist]
              /\ log' = <<[op |-> "as_numeric", ret |-> t.ret, reqs |-> t.reqs]>>
    /\ UNCHANGED <<feed, conf, thr, inst>>

\* as_string() of the sensor and of its twin
TwinAsString ==
    /\ ev' = ViewEvent("as_string", as_string(cls, cache))
    /\ log' = <<[op |-> "as_string", ret |-> as_string(inst["B"].cls, CacheOf("B")),
                 reqs |-> 0]>>
    /\ UNCHANGED <<cls, url, ttl, now, cache, last, hist, pushed, fnAt, runs, feed, conf, thr, heap, inst>>

NextTwins == Tick \/ TwinAsNumeric \/ TwinAsString

SpecTwins == InitTwins /\ [][NextTwins]_vars

----------------------------------------------------------------------------
(* Counting requests: a sensor polled against any backend, the observer      *)
(* noting how many directories of the counted type the sections listing of  *)
(* the call held                                                             *)

\* the directories of type kind.type in the answer to /library/sections
MatchingDirs(kind, http) ==
    IF http.t # "ok" THEN 0
    ELSE LET j    == http.json
             mc   == IF j.t = "dict" THEN Get(j, "MediaContainer", EmptyDict) ELSE EmptyDict
             dirs == IF mc.t = "dict" THEN Get(mc, "Directory", EmptyList) ELSE EmptyList
         IN  IF dirs.t # "list" THEN 0
             ELSE Cardinality({i \in 1..Len(dirs.l) :
                      dirs.l[i].t = "dict" /\ Get(dirs.l[i], "type", JNull) = JStr(kind.type)})

\* what the compute function of class c does against each backend, with the
\* number of directories of the counted type that backend lists
RequestRuns(c, u) ==
    {[own  |-> Run(c, u, net),
      dirs |-> IF IsPlexCount(c) THEN MatchingDirs(CountKind(c), net.sections) ELSE 0] :
        net \in Nets(c)}

\* the sensors of sensors_custom_plex.py and sensors_custom_proxmox.py; those of
\* sensors_custom.py issue the same requests (SpecTwins)
RequestClasses == {c \in Classes : ~HasHist(c)}

InitRequests ==
    /\ cls \in RequestClasses
    /\ url \in Urls
    /\ ttl \in {0, MaxTTL}
    /\ now = 0
    /\ runs = RequestRuns(cls, url)
    /\ Fields

\* as_numeric() against any of the backends
RequestAsNumeric ==
    /\ \E run \in runs :
          /\ AsNumericWith(run.own)
          /\ log' = <<[at |-> now, dirs |-> run.dirs]>>
    /\ UNCHANGED <<feed, conf, thr, heap, inst>>

NextRequests == Tick \/ RequestAsNumeric

SpecRequests == InitRequests /\ [][NextRequests]_vars

----------------------------------------------------------------------------
(* Claims *)

\* the latest operation was a call of _cached, directly or through as_numeric
Called == ev.op \in Calls

\* the entry of the key was fresh when the latest call was made
WasFresh == ev.had /\ ev.age < ttl

\* the entry of the key was stale when the latest call was made
WasStale == ev.had /\ ev.age >= ttl

\* the compute function of the latest call returned a value that _cached
\* stores: any value returned under accept-on-failure, a value other than
\* None under retain-last-good
StoredByPolicy(out) == out = "float" \/ (out = "None" /\ cls.file # "proxmox")

\* C1 as stated, for compute functions that return: two calls of _cached for
\* one key less than ttl apart never both invoke fn. (ev.since is the time
\* since the latest earlier call for the key that invoked fn.)
C1_Original ==
    (Called /\ ev.invoked /\ ev.since >= 0 /\ ev.prevout # "raise" /\ ev.fnout # "raise")
        => ~(ev.since < ttl)

\* C1 amended: a call made while the entry is fresh returns the stored value
\* without invoking fn; and two calls for one key less than ttl apart both
\* invoke fn only if the compute function of the first stored nothing: it
\* raised, or returned None under retain-last-good.
C1_FreshEntryServedOnce ==
    /\ (Called /\ WasFresh) => (~ev.invoked /\ ev.raw = ev.old)
    /\ (Called /\ ev.invoked /\ ev.since >= 0 /\ ev.since < ttl)
          => ~StoredByPolicy(ev.prevout)

\* a second call within ttl of a call that invoked fn is served from the cache
C1_Witness ==
    /\ ev.op = "_cached"
    /\ WasFresh
    /\ ~ev.invoked
    /\ ev.since >= 0 /\ ev.since < ttl
    /\ ev.raw # None

\* C2 as stated, for compute functions that return: a call that finds a stale
\* entry invokes fn and sets _last[key] to the time of the call.
C2_Original ==
    (Called /\ WasStale /\ ev.fnout # "raise") => (ev.invoked /\ last[ev.key] = ev.at)

\* C2 amended: a call that finds a stale entry invokes fn (once); if fn returns
\* a value that _cached stores, the entry holds that value and _last[key] is
\* the time of the call; if fn raises, or returns None under retain-last-good,
\* the value and _last[key] are what they were.
C2_StaleEntryRecomputed ==
    (Called /\ WasStale) =>
        /\ ev.invoked
        /\ IF StoredByPolicy(ev.fnout)
           THEN last[ev.key] = ev.at /\ cache[ev.key] = ev.raw
           ELSE last[ev.key] = ev.at - ev.age /\ cache[ev.key] = ev.old

\* a stale entry was refreshed with a new value after ttl had elapsed
C2_Witness ==
    /\ Called
    /\ ttl > 0
    /\ WasStale
    /\ ev.fnout = "float"
    /\ ev.raw # ev.old
    /\ last[ev.key] = ev.at

\* C3: under accept-on-failure (sensors_custom.py, sensors_custom_plex.py), an
\* as_numeric call that finds the entry missing or stale while the backend is
\* Unavailable stores 0.0 as the value of the key and the time of the call as
\* its _last.
C3_FailureStoresSentinel ==
    (ev.op = "as_numeric" /\ cls.file \in {"custom", "plex"}
        /\ (~ev.had \/ ev.age >= ttl) /\ ev.down)
      => /\ ev.key \in DOMAIN cache /\ cache[ev.key] = Val(Zero)
         /\ ev.key \in DOMAIN last /\ last[ev.key] = ev.at
         /\ ev.ret = Val(Zero)

\* a good value, gone stale, was overwritten by the sentinel during an outage
C3_Witness ==
    /\ ev.op = "as_numeric"
    /\ cls.file \in {"custom", "plex"}
    /\ ev.had /\ ev.old # Val(Zero) /\ ev.age >= ttl /\ ttl > 0
    /\ ev.down
    /\ cache[ev.key] = Val(Zero)
    /\ last[ev.key] = ev.at /\ ev.at > 0

\* C4: in _cached of sensors_custom_proxmox.py, a call whose compute function
\* returns None for a key that has an entry leaves the value and _last of the
\* key as they were and returns the stored value.
C4_NoneKeepsEntry ==
    (ev.op = "_cached" /\ cls.file = "proxmox" /\ ev.had /\ ev.invoked /\ ev.fnout = "None")
      => /\ ev.key \in DOMAIN cache /\ cache[ev.key] = ev.old
         /\ ev.key \in DOMAIN last /\ last[ev.key] = ev.at - ev.age
         /\ ev.ret = ev.old

\* the failing call was repeated on a stale entry that holds a good value
C4_Witness ==
    /\ ev.op = "_cached"
    /\ cls.file = "proxmox"
    /\ ev.had /\ ev.old # None /\ ev.age >= ttl /\ ttl > 0
    /\ ev.invoked /\ ev.fnout = "None"
    /\ ev.since >= 0 /\ ev.prevout = "None"

\* C5 as stated: a sensor of sensors_custom_proxmox.py that refreshes a stale
\* entry while the backend is Unavailable returns the value derived from the
\* stored value, which stays stored.
C5_Claim ==
    (ev.op = "as_numeric" /\ cls.file = "proxmox" /\ ev.had /\ ev.age >= ttl /\ ev.down)
      => /\ ev.ret = Numeric(cls, ev.old)
         /\ cache[ev.key] = ev.old

\* C6 as stated: the first as_numeric call of a sensor of
\* sensors_custom_proxmox.py, made while the backend is Unavailable, returns
\* the no-value signal, which is not the number 0.0, and creates no entry.
C6_Claim ==
    (ev.op = "as_numeric" /\ cls.file = "proxmox" /\ ~ev.had /\ ev.down)
      => /\ ev.ret # Val(Zero)
         /\ ev.key \notin DOMAIN cache

\* C7: the history never holds more than 200 samples, and it is always the
\* latest samples pushed, in the order they were pushed: a push on a full
\* buffer evicts the oldest sample and nothing else.
C7_HistoryBoundedFifo ==
    /\ Len(hist) <= 200
    /\ Len(hist) = (IF Len(pushed) < 200 THEN Len(pushed) ELSE 200)
    /\ \A i \in 1..Len(hist) : hist[i] = pushed[Len(pushed) - Len(hist) + i]

\* samples were pushed on a full buffer
C7_Witness ==
    /\ Len(pushed) = 250
    /\ Len(hist) = 200
    /\ hist[1] = pushed[51] /\ hist[1] # pushed[1]

\* C8: after n pushes last_values returns the last min(40, n) samples pushed,
\* oldest first; after 250 pushes these are the pushes 211..250 (the k-th
\* sample of this backend is the number k).
C8_LastValuesWindow ==
    ev.op = "last_values" =>
        LET n == Len(pushed)
            m == IF n < 40 THEN n ELSE 40
        IN  /\ ev.ret.t = "list"
            /\ Len(ev.ret.l) = m
            /\ \A i \in 1..m : ev.ret.l[i] = pushed[n - m + i]
            /\ n = 250 => \A i \in 1..40 : ev.ret.l[i] = Val(Rat(210 + i, 1))

\* last_values was called after 250 pushes
C8_Witness ==
    /\ ev.op = "last_values"
    /\ Len(pushed) = 250
    /\ Len(ev.ret.l) = 40

\* C9: as_string and last_values issue no request and leave _cache, _last and
\* _hist as they are, whatever the state; called again, they return what they
\* returned before.
C9_ViewsReadOnly ==
    [][(ev'.op \in Views /\ now' = now) =>
          /\ cache' = cache /\ last' = last /\ hist' = hist
          /\ ev'.reqs = 0
          /\ (ev.op = ev'.op => ev'.ret = ev.ret)]_vars

\* both views were called on a stale entry
C9_Witness ==
    /\ ev.op = "last_values" /\ ev.after = "as_string"
    /\ KeyOf(cls) \in DOMAIN cache
    /\ ttl > 0 /\ now - last[KeyOf(cls)] >= ttl

\* C10: as_string called right after an as_numeric call that returned formats
\* the value that _cached gave to as_numeric, from which as_numeric derived its
\* result; it issues no request and leaves the entry alone.
C10_StringMatchesNumeric ==
    [][(ev.op = "as_numeric" /\ ev.ret # Raised /\ ev'.op = "as_string") =>
          /\ ev'.ret = as_string(cls, [k \in {ev.key} |-> ev.raw])
          /\ ev.ret = Numeric(cls, ev.raw)
          /\ ev'.reqs = 0
          /\ cache' = cache /\ last' = last]_vars

\* as_string was called right after as_numeric, on an entry that had gone stale
C10_Witness ==
    /\ ev.op = "as_string" /\ ev.after = "as_numeric"
    /\ KeyOf(cls) \in DOMAIN cache /\ cache[KeyOf(cls)] # Val(Zero)
    /\ ttl > 0 /\ now - last[KeyOf(cls)] >= ttl

\* C11: with cache_ttl 30 and a backend answering 10.0, Unavailable, 20.0,
\* one answer per compute, the polls at 0, 5, 31 and 32 return 10.0 (computed),
\* 10.0 (cached), 0.0 (computed from the failure) and 0.0 (cached); and
\* whenever the entry holds 0.0 and is younger than cache_ttl, as_numeric
\* returns 0.0 without computing, whatever the backend would answer.
C11_ScriptedPolls ==
    /\ (/\ Len(log) >= 4
        /\ log[1].at = 0 /\ log[2].at = 5 /\ log[3].at = 31 /\ log[4].at = 32)
         => /\ log[1].ret = Val(Rat(10, 1)) /\ log[1].invoked
            /\ log[2].ret = Val(Rat(10, 1)) /\ ~log[2].invoked
            /\ log[3].ret = Val(Zero) /\ log[3].invoked
            /\ log[4].ret = Val(Zero) /\ ~log[4].invoked
    /\ (ev.op = "as_numeric" /\ ev.had /\ ev.old = Val(Zero) /\ ev.age < ttl)
         => /\ ~ev.invoked /\ ev.reqs = 0
            /\ ev.ret = Val(Zero)
            /\ cache[ev.key] = Val(Zero)

\* the four polls were made, the last one with the backend back up
C11_Witness ==
    /\ Len(log) = 4
    /\ log[1].at = 0 /\ log[2].at = 5 /\ log[3].at = 31 /\ log[4].at = 32
    /\ log[4].ret = Val(Zero)
    /\ feed = <<Ok(Container(JInt(20)))>>

\* C12: with an empty base URL every as_numeric call of every sensor returns
\* 0.0 and requests.get is not called.
C12_Claim ==
    (ev.op = "as_numeric" /\ url = "")
      => /\ ev.ret = Val(Zero)
         /\ ev.reqs = 0

\* C13: whatever the backend answers (a status other than 200, a network
\* error, a body that is no JSON or has an unexpected shape), as_numeric
\* returns a number and does not raise.
C13_Claim ==
    ev.op = "as_numeric" => (ev.ret # Raised /\ ev.ret.t = "float")

\* the sensors whose compute function combines several fields or fetches
Composite ==
    IsPlexCount(cls)
      \/ cls.name \in {"ProxmoxNodeNetworkSensor", "ProxmoxNodeMemoryUsageSensor",
                       "ProxmoxNodeDiskUsageSensor", "ProxmoxVMMemoryUsageSensor"}

\* answers of the expected shape in which fields are missing or null, or a
\* fetch of one section failed
PartialNets ==
    CASE IsPlexCount(cls) ->
           {net \in CountNets(CountKind(cls)) :
               /\ net.sections \in {Ok(Sections(JList(l))) : l \in SeqsUpTo(Dirs(CountKind(cls)), MaxDirs)}
               /\ \E k \in DOMAIN net.items : net.items[k] \in {NetErr, Ok(Container(JNull))}}
      [] cls.name = "ProxmoxNodeNetworkSensor" ->
           {Data(JList(l)) : l \in SeqsUpTo(Ifaces, MaxDirs)}
      [] cls.name = "ProxmoxNodeMemoryUsageSensor" ->
           {Data(JDict([memory |-> m])) : m \in UsedTotal \ {JInt(1)}}
      [] cls.name = "ProxmoxNodeDiskUsageSensor" ->
           {Data(JDict([rootfs |-> m])) : m \in UsedTotal \ {JInt(1)}}
      [] cls.name = "ProxmoxVMMemoryUsageSensor" ->
           {Data(JDict([mem |-> JInt(1)])), Data(JDict([mem |-> JNull, maxmem |-> JInt(1)]))}
      [] OTHER -> {}

\* C14: a composite compute function given an answer with missing or null
\* fields, or with a failed section fetch, does not raise: as_numeric returns
\* a number.
C14_Claim ==
    \A i \in 1..Len(log) :
        (Composite /\ log[i].invoked /\ log[i].net \in PartialNets)
          => (log[i].ret # Raised /\ log[i].ret.t = "float")

\* C15: every key present in the instance overrides has, in the constructed
\* sensor, the value the overrides give it (a url without its trailing
\* slashes), falsy values included.
C15_Claim ==
    conf.self # None =>
        \A k \in DOMAIN conf.config :
            conf.self.fields[k] =
                CASE k = "verify_ssl" -> Flag(CfgTruthy(conf.config[k]))
                  [] k = "url"        -> Text(RStrip(conf.config[k].p))
                  [] OTHER            -> conf.config[k]

\* the Authorization header of the constructed sensor, <<>> when there is none
Authorization ==
    IF "Authorization" \in DOMAIN conf.self.headers
    THEN conf.self.headers["Authorization"]
    ELSE <<>>

\* a Proxmox sensor has been constructed
PmxBuilt == conf.self # None /\ ~IsPlex(cls)

\* C16 as stated: the header is attached exactly when a token id and a token
\* secret are configured, and its credential is user!tokenId=secret, user
\* being the configured username.
C16_Original ==
    PmxBuilt =>
        LET f == conf.self.fields
        IN  /\ (Authorization # <<>>) <=> (CfgTruthy(f.token_id) /\ CfgTruthy(f.token_secret))
            /\ Authorization # <<>> =>
                 /\ f.username.t = "text"
                 /\ Authorization = <<"PVEAPIToken=">> \o f.username.p \o <<"!">>
                                      \o f.token_id.p \o <<"=">> \o f.token_secret.p

\* C16: the header is attached exactly when a token id and a token secret are
\* configured; its credential is tokenId=secret when the token id contains
\* "!", and user!tokenId=secret otherwise, user being the configured username
\* as Python formats it (None when there is none).
C16_AuthorizationHeader ==
    PmxBuilt =>
        LET f == conf.self.fields
        IN  /\ (Authorization # <<>>) <=> (CfgTruthy(f.token_id) /\ CfgTruthy(f.token_secret))
            /\ Authorization # <<>> =>
                 Authorization =
                    <<"PVEAPIToken=">>
                      \o (IF HasBang(f.token_id.p) THEN <<>> ELSE Format(f.username) \o <<"!">>)
                      \o f.token_id.p \o <<"=">> \o f.token_secret.p

\* a sensor constructed with a token id that names its own user, other than
\* the configured username
C16_Witness ==
    /\ PmxBuilt
    /\ Authorization = <<"PVEAPIToken=", "ua", "!", "ta", "=", "sa">>
    /\ conf.self.fields.username = Text(<<"ub">>)

\* C17: the check-fetch-update sequence is mutually exclusive: no two threads
\* are at the same time between the freshness test of _cached and its write
\* of _last, so that one miss gives one fetch and one update.
C17_Claim ==
    \A s, t \in Threads :
        s # t => ~(thr[s].pc \in {"fetch", "store", "stamp"}
                     /\ thr[t].pc \in {"fetch", "store", "stamp"})

\* what instance i holds: its cache, its observed_at map and its history
Holds(i) == <<CacheOf(i), LastOf_(i), HistOf(i)>>

\* C18: an operation on one instance, whether its fetch succeeds, fails or
\* raises, leaves the cache, the observed_at map and the history of every
\* other instance as they were; and what as_string and last_values return for
\* an instance is determined by what that instance holds.
C18_InstancesIsolated ==
    [][(inst' = inst /\ now' = now) =>
          /\ \A j \in DOMAIN inst : j # ev'.inst => Holds(j)' = Holds(j)
          /\ ev'.op = "as_string" =>
               ev'.ret = as_string(inst[ev'.inst].cls, CacheOf(ev'.inst))
          /\ ev'.op = "last_values" =>
               ev'.ret = last_values(inst[ev'.inst].cls, CacheOf(ev'.inst), HistOf(ev'.inst))]_vars

\* A and B are of the same class, B holds a value, and an as_numeric of A has
\* just failed and left another value in A
C18_Witness ==
    /\ DOMAIN inst = Names
    /\ inst["A"].cls = inst["B"].cls
    /\ ev.op = "as_numeric" /\ ev.inst = "A" /\ ev.down
    /\ KeyOf(inst["B"].cls) \in DOMAIN CacheOf("B")
    /\ KeyOf(inst["A"].cls) \in DOMAIN CacheOf("A")
    /\ CacheOf("B") # CacheOf("A")

Uptime == log[1].net.json.m["data"].m["uptime"].v[1]

\* C20: when the node reports an uptime of s seconds, as_numeric returns
\* s / 3600 and as_string returns "{d}d {h}h {m}m" with d = s div 86400,
\* h = (s mod 86400) div 3600 and m = (s mod 3600) div 60, where h < 24,
\* m < 60 and less than a minute is left over; 90061 gives "1d 1h 1m".
C20_UptimeViews ==
    Len(log) >= 1 =>
        LET s == Uptime
            d == s \div 86400
            h == (s % 86400) \div 3600
            m == (s % 3600) \div 60
        IN  /\ log[1].ret = Val(Rat(s, 3600))
            /\ ev.op = "as_string" => ev.ret = Str(<<d, "d", h, "h", m, "m">>)
            /\ 0 <= h /\ h < 24 /\ 0 <= m /\ m < 60
            /\ 0 <= s - (86400 * d + 3600 * h + 60 * m)
            /\ s - (86400 * d + 3600 * h + 60 * m) < 60
            /\ (s = 90061 /\ ev.op = "as_string") => ev.ret = Str(<<1, "d", 1, "h", 1, "m">>)

\* as_string was called after the node reported 90061 seconds
C20_Witness ==
    /\ Len(log) = 1 /\ Uptime = 90061
    /\ ev.op = "as_string"
    /\ ev.ret = Str(<<1, "d", 1, "h", 1, "m">>)

\* C21: after every operation the keys of _cache are the keys of _last; the
\* _last of a key changes only in a call for that key whose compute function
\* returned a value that _cached stored as the value of the key in the same
\* call; and a call whose compute function raises changes neither dict.
C21_NoHalfUpdate ==
    [][/\ DOMAIN cache' = DOMAIN last'
       /\ \A k \in DOMAIN last' :
             (k \notin DOMAIN last \/ last'[k] # last[k])
                => /\ ev'.op \in Calls /\ ev'.key = k /\ ev'.at = now
                   /\ ev'.invoked /\ StoredByPolicy(ev'.fnout)
                   /\ cache'[k] = ev'.raw
                   /\ last'[k] = now
       /\ (ev'.op \in Calls /\ now' = now /\ ev'.fnout = "raise")
             => (cache' = cache /\ last' = last)]_vars

\* a compute function raised on a stale entry while another key had an entry
\* of its own, after both had been written at different times
C21_Witness ==
    /\ ev.op = "_cached"
    /\ ev.fnout = "raise" /\ ev.had /\ ev.age >= ttl /\ ttl > 0
    /\ DOMAIN cache = HarnessKeys /\ DOMAIN last = HarnessKeys
    /\ \E k \in HarnessKeys : last[k] # last[ev.key]
    /\ cache[ev.key] = ev.old

\* the as_numeric call noted in e returned
DidReturn(e) == e.ret # Raised

\* C22: in sensors_custom.py the history is the sequence of the values that
\* the as_numeric calls returned, one sample per call that returned, whether
\* the value came from the cache or from the compute function: after n such
\* calls it holds the latest min(n, 200) of them, in order, and ends with the
\* value returned last.
C22_OneSamplePerCall ==
    LET calls == SelectSeq(log, DidReturn)
        n     == Len(calls)
        m     == IF n < 200 THEN n ELSE 200
    IN  /\ Len(hist) = m
        /\ \A i \in 1..m : hist[i] = calls[n - m + i].ret
        /\ (ev.op = "as_numeric" /\ ev.ret # Raised) => hist[Len(hist)] = ev.ret

\* 250 calls were made, of which one raised, most were served from the
\* cache and the last was served from the cache after a refresh
C22_Witness ==
    /\ Len(log) = 250
    /\ \E i \in 1..250 : log[i].ret = Raised
    /\ ev.op = "as_numeric" /\ ~ev.invoked
    /\ Len(hist) = 200
    /\ hist[200] = ev.ret /\ hist[200] # hist[1]

\* C23 as stated: last_values of a sensor that keeps no history (any sensor of
\* sensors_custom_plex.py or sensors_custom_proxmox.py) returns a list of one
\* element, the value stored for the key of the sensor.
C23_Claim ==
    (ev.op = "last_values" /\ ~HasHist(cls))
      => /\ ev.ret.t = "list" /\ Len(ev.ret.l) = 1
         /\ ev.ret.l[1] = CacheGet(cache, KeyOf(cls))

\* C24 as stated: for every sensor of sensors_custom_proxmox.py, last_values
\* called after an as_numeric call that returned x returns [x].
C24_Claim ==
    [][(/\ cls.file = "proxmox"
        /\ ev.op = "as_numeric" /\ ev.ret # Raised
        /\ ev'.op = "last_values")
          => ev'.ret = List(<<ev.ret>>)]_vars

\* C25: in _cached of sensors_custom_proxmox.py, a compute function that
\* returns None leaves the key without an entry or with a stale one, and the
\* dicts as they were; as long as the latest compute for a key returned None,
\* every call for the key invokes the compute function again, however soon it
\* is made; the first compute that returns a value stores it with the time of
\* that call as _last[key], and calls made less than cache_ttl after it are
\* served from the cache.
C25_RetryUntilSuccess ==
    (ev.op = "_cached" /\ cls.file = "proxmox") =>
        /\ (ev.invoked /\ ev.fnout = "None")
              => /\ (ev.key \notin DOMAIN cache \/ now - last[ev.key] >= ttl)
                 /\ ev.had = (ev.key \in DOMAIN cache)
                 /\ ev.had => (cache[ev.key] = ev.old /\ last[ev.key] = ev.at - ev.age)
        /\ (ev.since >= 0 /\ ev.prevout = "None") => ev.invoked
        /\ (ev.invoked /\ ev.fnout = "float")
              => (cache[ev.key] = ev.raw /\ last[ev.key] = ev.at /\ ev.ret = ev.raw)
        /\ (ev.since >= 0 /\ ev.prevout = "float" /\ ev.since < ttl)
              => (~ev.invoked /\ ev.ret = ev.old)

\* a compute succeeded right after one that had returned None on a stale
\* entry, less than cache_ttl after it
C25_Witness ==
    /\ ev.op = "_cached" /\ cls.file = "proxmox"
    /\ ev.had /\ ev.age >= ttl /\ ttl > 0
    /\ ev.prevout = "None" /\ ev.since >= 0 /\ ev.since < ttl
    /\ ev.invoked /\ ev.fnout = "float" /\ ev.raw # ev.old
    /\ last[ev.key] = ev.at /\ ev.at > 0

C27_Original ==
    ev.op = "as_numeric" =>
        IF WasFresh THEN ev.reqs = 0
        ELSE IF IsPlexCount(cls) THEN ev.reqs <= 1 + log[1].dirs
        ELSE ev.reqs = 1

\* C27 amended: an as_numeric call invokes the compute function exactly when
\* the entry is missing or stale. On a fresh entry it issues no request. On a
\* missing or stale entry a Plex sensor without a url issues no request; any
\* other single-endpoint sensor calls requests.get exactly once; a Plex count
\* sensor with a url issues at least one and at most 1 + k requests, k being
\* the directories of the counted type in the sections listing. A failed
\* request is not made again in the same call.
C27_SingleAttempt ==
    ev.op = "as_numeric" =>
        /\ ev.invoked = ~WasFresh
        /\ IF WasFresh THEN ev.reqs = 0
           ELSE IF IsPlex(cls) /\ url = "" THEN ev.reqs = 0
           ELSE IF IsPlexCount(cls)
                THEN /\ 1 <= ev.reqs /\ ev.reqs <= 1 + log[1].dirs
                     /\ ev.down => ev.reqs = 1
           ELSE ev.reqs = 1

\* a Plex count sensor refreshed a stale entry with one request per
\* directory of its type after the one for the listing
C27_Witness ==
    /\ ev.op = "as_numeric" /\ IsPlexCount(cls) /\ url # ""
    /\ WasStale /\ ttl > 0
    /\ log[1].dirs = 2 /\ ev.reqs = 3
    /\ ev.since >= 0

=============================================================================
